---- MODULE Spec2Model ----
(***************************************************************************)
(* FRACTURA.D02 script suite (src/fractura.py): the JSON document, the     *)
(* three report files, the symbol/mantra gatherers, the numbered report    *)
(* writer, the report reader, the glitch fusion and the ritual             *)
(* orchestrator.                                                           *)
(*                                                                         *)
(* A Python str is modelled as a sequence of characters, a character being *)
(* a TLA+ string: the ASCII character itself, or "U+XXXX" for a code point *)
(* outside ASCII.  A file is a record [present, text], text being the      *)
(* characters of the file.                                                 *)
(*                                                                         *)
(* Four specifications: Spec is one invocation of main on a document and   *)
(* on report files an earlier run may have left; SpecRoundTrip, SpecGather *)
(* and SpecFuse apply the report writer and reader, the gatherers and the  *)
(* fusion to inputs drawn from bounded sets.                               *)
(*                                                                         *)
(* Left out: path resolution and logging (LuxUtils.__init__,               *)
(* get_json_path), and document fields that are not lists of strings.  A   *)
(* failing write leaves whole f.write calls in the file, not parts of one. *)
(***************************************************************************)
EXTENDS Integers, Sequences, FiniteSets, TLC

VARIABLES
    doc,        \* the JSON document on disk (absent, unparsable or a JSON value)
    files,      \* the three report files of outputs/
    pc,         \* position of the process: main, the ritual's steps, its end
    command,    \* sys.argv[1] as dispatched by main ("" before main has run)
    success_count, \* run_complete_ritual's tally
    ret,        \* run_complete_ritual's return value ("none" until it returns)
    attempts,   \* the stage calls made so far, in order: [stage, result]
    last,       \* the last stage call: what it read, what the write did, its result
    L,          \* round trip: the list handed to the report writer
    loaded,     \* round trip: what _load_extracted_content returned
    phase,      \* position of the pure-function harnesses
    gathered,   \* gather harness: the gatherer's result
    S,          \* fusion harness: the symbol lines
    M,          \* fusion harness: the mantra lines
    glitch_content,   \* the content after shuffle()
    processed_content \* the decorated lines

vars == <<doc, files, pc, command, success_count, ret, attempts, last, L, loaded, phase,
          gathered, S, M, glitch_content, processed_content>>

-----------------------------------------------------------------------------
(* Python str and list primitives                                          *)

Min(a, b) == IF a < b THEN a ELSE b

Range(s) == {s[i] : i \in 1..Len(s)}

\* the characters str.strip() and str.split() treat as whitespace
IsSpace(c) == c \in {" ", "\n", "\t"}

Digits == <<"0", "1", "2", "3", "4", "5", "6", "7", "8", "9">>

\* str(n) for n >= 0
RECURSIVE Decimal(_)
Decimal(n) == IF n < 10 THEN <<Digits[n + 1]>>
              ELSE Decimal(n \div 10) \o <<Digits[(n % 10) + 1]>>

\* f"{i:2d}": right-aligned in a field of width 2, padded with spaces
Format2d(i) == IF Len(Decimal(i)) < 2 THEN <<" ">> \o Decimal(i) ELSE Decimal(i)

\* c * n
Repeat(c, n) == [i \in 1..n |-> c]

RECURSIVE LStrip(_)
LStrip(s) == IF s # <<>> /\ IsSpace(Head(s)) THEN LStrip(Tail(s)) ELSE s

RECURSIVE RStrip(_)
RStrip(s) == IF s # <<>> /\ IsSpace(s[Len(s)]) THEN RStrip(SubSeq(s, 1, Len(s) - 1))
             ELSE s

\* str.strip()
Strip(s) == RStrip(LStrip(s))

\* str.startswith(p)
StartsWith(s, p) == Len(s) >= Len(p) /\ SubSeq(s, 1, Len(p)) = p

\* str.find(sub) + 1 from position i on: the 1-based position of the first
\* occurrence, 0 if none
RECURSIVE FindFrom(_, _, _)
FindFrom(s, sub, i) ==
    IF i + Len(sub) - 1 > Len(s) THEN 0
    ELSE IF \A k \in 1..Len(sub) : s[i + k - 1] = sub[k] THEN i
    ELSE FindFrom(s, sub, i + 1)

Find(s, sub) == FindFrom(s, sub, 1)

\* str.isdigit()
IsDigit(s) == s # <<>> /\ \A i \in 1..Len(s) : s[i] \in Range(Digits)

\* "".join(parts)
RECURSIVE Concat(_)
Concat(parts) == IF parts = <<>> THEN <<>> ELSE Head(parts) \o Concat(Tail(parts))

\* " ".join(words)
RECURSIVE JoinSpace(_)
JoinSpace(words) ==
    IF words = <<>> THEN <<>>
    ELSE IF Len(words) = 1 THEN Head(words)
    ELSE Head(words) \o <<" ">> \o JoinSpace(Tail(words))

\* str.split(): the maximal runs of non-whitespace characters
RECURSIVE SplitWords(_)
SplitWords(s) ==
    LET t == LStrip(s)
        stops == {i \in 1..Len(t) : IsSpace(t[i])}
        n == IF stops = {} THEN Len(t) + 1 ELSE CHOOSE i \in stops : \A j \in stops : i <= j
    IN  IF t = <<>> THEN <<>>
        ELSE <<SubSeq(t, 1, n - 1)>> \o SplitWords(SubSeq(t, n, Len(t)))

\* f.readlines(): the lines of the text, each with its line end
RECURSIVE ReadLinesFrom(_, _)
ReadLinesFrom(text, start) ==
    LET n == FindFrom(text, <<"\n">>, start)
    IN  IF start > Len(text) THEN <<>>
        ELSE IF n = 0 THEN <<SubSeq(text, start, Len(text))>>
        ELSE <<SubSeq(text, start, n)>> \o ReadLinesFrom(text, n + 1)

ReadLines(text) == ReadLinesFrom(text, 1)

-----------------------------------------------------------------------------
(* The fixed texts of the reports                                          *)

\* src/fractura.py:151  'U+1F52E Symboles analysU+00E9s dans FRACTURA.U+039402'
SymbolsTitle ==
    <<"U+1F52E", " ", "S", "y", "m", "b", "o", "l", "e", "s", " ", "a", "n", "a", "l",
      "y", "s", "U+00E9", "s", " ", "d", "a", "n", "s", " ", "F", "R", "A", "C", "T",
      "U", "R", "A", ".", "U+0394", "0", "2">>

\* src/fractura.py:226  'U+1F5DDU+FE0F Mantras extraits de FRACTURA.U+039402'
MantrasTitle ==
    <<"U+1F5DD", "U+FE0F", " ", "M", "a", "n", "t", "r", "a", "s", " ", "e", "x", "t",
      "r", "a", "i", "t", "s", " ", "d", "e", " ", "F", "R", "A", "C", "T", "U", "R",
      "A", ".", "U+0394", "0", "2">>

\* src/fractura.py:153  'Extraction gU+00E9nU+00E9rU+00E9e le: '
ExtractionPrefix ==
    <<"E", "x", "t", "r", "a", "c", "t", "i", "o", "n", " ", "g", "U+00E9", "n",
      "U+00E9", "r", "U+00E9", "e", " ", "l", "e", ":", " ">>

\* src/fractura.py:158  '\n--- Total: '
TotalPrefix ==
    <<"\n", "-", "-", "-", " ", "T", "o", "t", "a", "l", ":", " ">>

\* src/fractura.py:158  ' symboles ---\n'
SymbolsTotalSuffix ==
    <<" ", "s", "y", "m", "b", "o", "l", "e", "s", " ", "-", "-", "-", "\n">>

\* src/fractura.py:233  ' U+00E9lU+00E9ments narratifs ---\n'
MantrasTotalSuffix ==
    <<" ", "U+00E9", "l", "U+00E9", "m", "e", "n", "t", "s", " ", "n", "a", "r", "r",
      "a", "t", "i", "f", "s", " ", "-", "-", "-", "\n">>

\* src/fractura.py:212  '[ARCHETYPE] '
ArchetypeTag ==
    <<"[", "A", "R", "C", "H", "E", "T", "Y", "P", "E", "]", " ">>

\* src/fractura.py:217  '[TECHNIQUE] '
TechniqueTag ==
    <<"[", "T", "E", "C", "H", "N", "I", "Q", "U", "E", "]", " ">>

\* src/fractura.py:291  'U+1F52E'
CrystalBall ==
    <<"U+1F52E">>

\* src/fractura.py:292  'U+1F5DDU+FE0F'
OldKey ==
    <<"U+1F5DD", "U+FE0F">>

\* src/fractura.py:294  '---'
DashMarker ==
    <<"-", "-", "-">>

\* src/fractura.py:295  'Extraction gU+00E9nU+00E9rU+00E9e'
ExtractionMarker ==
    <<"E", "x", "t", "r", "a", "c", "t", "i", "o", "n", " ", "g", "U+00E9", "n",
      "U+00E9", "r", "U+00E9", "e">>

\* src/fractura.py:296  'Total:'
TotalMarker ==
    <<"T", "o", "t", "a", "l", ":">>

\* src/fractura.py:299  '. '
NumberingSep ==
    <<".", " ">>

\* src/fractura.py:356  'U+1F50A CHANT GLITCHU+00C9 SACRU+00C9 U+2013 FRACTURA.U+039402\n'
ChantTitle ==
    <<"U+1F50A", " ", "C", "H", "A", "N", "T", " ", "G", "L", "I", "T", "C", "H",
      "U+00C9", " ", "S", "A", "C", "R", "U+00C9", " ", "U+2013", " ", "F", "R", "A",
      "C", "T", "U", "R", "A", ".", "U+0394", "0", "2", "\n">>

\* src/fractura.py:358  'Par la Fracture vient la Vue\n'
ChantMotto1 ==
    <<"P", "a", "r", " ", "l", "a", " ", "F", "r", "a", "c", "t", "u", "r", "e", " ",
      "v", "i", "e", "n", "t", " ", "l", "a", " ", "V", "u", "e", "\n">>

\* src/fractura.py:359  'Lux contre Spectaculum\n'
ChantMotto2 ==
    <<"L", "u", "x", " ", "c", "o", "n", "t", "r", "e", " ", "S", "p", "e", "c", "t",
      "a", "c", "u", "l", "u", "m", "\n">>

\* src/fractura.py:361  'GU+00E9nU+00E9rU+00E9 le: '
ChantGeneratedPrefix ==
    <<"G", "U+00E9", "n", "U+00E9", "r", "U+00E9", " ", "l", "e", ":", " ">>

\* src/fractura.py:362  'U+00C9lU+00E9ments fusionnU+00E9s: '
ChantCountPrefix ==
    <<"U+00C9", "l", "U+00E9", "m", "e", "n", "t", "s", " ", "f", "u", "s", "i", "o",
      "n", "n", "U+00E9", "s", ":", " ">>

\* src/fractura.py:363  '--- INVOCATION ---\n\n'
ChantInvocation ==
    <<"-", "-", "-", " ", "I", "N", "V", "O", "C", "A", "T", "I", "O", "N", " ", "-",
      "-", "-", "\n", "\n">>

\* src/fractura.py:368  "\n--- FIN DE L'INVOCATION ---\n"
ChantEnd ==
    <<"\n", "-", "-", "-", " ", "F", "I", "N", " ", "D", "E", " ", "L", "'", "I", "N",
      "V", "O", "C", "A", "T", "I", "O", "N", " ", "-", "-", "-", "\n">>

\* src/fractura.py:369  'FRACTURA.U+039402 // Luxcordia.EXE\n'
ChantSignature ==
    <<"F", "R", "A", "C", "T", "U", "R", "A", ".", "U+0394", "0", "2", " ", "/", "/",
      " ", "L", "u", "x", "c", "o", "r", "d", "i", "a", ".", "E", "X", "E", "\n">>

\* src/fractura.py:252  'U+263FU+2604U+26A1U+25CAU+221EU+25B3U+2606U+25C8'
glitch_symbols ==
    <<"U+263F", "U+2604", "U+26A1", "U+25CA", "U+221E", "U+25B3", "U+2606", "U+25C8">>

\* "=" * 50 of the two extraction reports
SeparatorWidth == 50

\* "=" * 60 of the chant
ChantSeparatorWidth == 60

\* datetime.now().strftime('%Y-%m-%d %H:%M:%S') of this run
Now ==
    <<"2", "0", "2", "6", "-", "1", "1", "-", "0", "1", " ", "0", "5", ":", "1", "3",
      ":", "4", "4">>

\* the same, of an earlier run
Earlier ==
    <<"2", "0", "2", "6", "-", "1", "0", "-", "3", "1", " ", "2", "3", ":", "5", "9",
      ":", "0", "7">>

-----------------------------------------------------------------------------
(* Files and the report writers                                            *)

FileNames == {"symboles_extraits.txt", "mantras_extraits.txt", "chant_glitch_fusion.txt"}

NoFile == [present |-> FALSE, text |-> <<>>]

\* how many f.write calls may succeed before one raises
MaxFaultAt == 4

\* What the filesystem does to one open(..., 'w') and its writes: all succeed,
\* open() raises, or `at` writes go through and the next one (or, after the
\* last one, the close) raises.
Faults(chunks) ==
    {[kind |-> "ok", at |-> 0], [kind |-> "open", at |-> 0]}
    \cup {[kind |-> "write", at |-> k] : k \in 0..Min(MaxFaultAt, Len(chunks))}

\* the writer removing what it wrote when a write raises
WriteChunks_DeletesOnFailure(old, chunks, fault) ==
    CASE fault.kind = "open" -> [file |-> old, ok |-> FALSE, wrote |-> "open_failed"]
      [] fault.kind = "write" -> [file |-> NoFile, ok |-> FALSE, wrote |-> "write_failed"]
      [] OTHER -> [file |-> [present |-> TRUE, text |-> Concat(chunks)],
                   ok |-> TRUE, wrote |-> "ok"]

\* with open(output_file, 'w') as f: f.write(chunk) for each chunk, inside
\* try/except Exception.  open() truncates; the writes that went through stay.
WriteChunks(old, chunks, fault) ==
    CASE fault.kind = "open" ->
            [file |-> old, ok |-> FALSE, wrote |-> "open_failed"]
      [] fault.kind = "write" ->
            [file |-> [present |-> TRUE, text |-> Concat(SubSeq(chunks, 1, fault.at))],
             ok |-> FALSE, wrote |-> "write_failed"]
      [] OTHER ->
            [file |-> [present |-> TRUE, text |-> Concat(chunks)],
             ok |-> TRUE, wrote |-> "ok"]

\* for i, entry in enumerate(entries, 1): f.write(f"{i:2d}. {entry}\n")
NumberedChunks(entries) ==
    [i \in 1..Len(entries) |-> Format2d(i) \o <<".", " ">> \o entries[i] \o <<"\n">>]

SymbolsChunks(symbols, now) ==
    << SymbolsTitle \o <<"\n">>,
       Repeat("=", SeparatorWidth) \o <<"\n", "\n">>,
       ExtractionPrefix \o now \o <<"\n", "\n">> >>
    \o NumberedChunks(symbols)
    \o << TotalPrefix \o Decimal(Len(symbols)) \o SymbolsTotalSuffix >>

MantrasChunks(mantras, now) ==
    << MantrasTitle \o <<"\n">>,
       Repeat("=", SeparatorWidth) \o <<"\n", "\n">>,
       ExtractionPrefix \o now \o <<"\n", "\n">> >>
    \o NumberedChunks(mantras)
    \o << TotalPrefix \o Decimal(Len(mantras)) \o MantrasTotalSuffix >>

ChantChunks(content, now) ==
    << ChantTitle,
       Repeat("=", ChantSeparatorWidth) \o <<"\n">>,
       ChantMotto1,
       ChantMotto2,
       Repeat("=", ChantSeparatorWidth) \o <<"\n", "\n">>,
       ChantGeneratedPrefix \o now \o <<"\n">>,
       ChantCountPrefix \o Decimal(Len(content)) \o <<"\n", "\n">>,
       ChantInvocation >>
    \o [i \in 1..Len(content) |-> content[i] \o <<"\n">>]
    \o << ChantEnd, ChantSignature >>

WriteSymbolsFile(symbols, old, now, fault) == WriteChunks(old, SymbolsChunks(symbols, now), fault)

WriteMantrasFile(mantras, old, now, fault) == WriteChunks(old, MantrasChunks(mantras, now), fault)

WriteChantFile(content, old, now, fault) == WriteChunks(old, ChantChunks(content, now), fault)

-----------------------------------------------------------------------------
(* The report reader                                                       *)

\* the filter of the reader: not empty, and none of the header markers
IsContent(line) ==
    /\ line # <<>>
    /\ ~StartsWith(line, CrystalBall)
    /\ ~StartsWith(line, OldKey)
    /\ ~StartsWith(line, <<"=">>)
    /\ ~StartsWith(line, DashMarker)
    /\ ~StartsWith(line, ExtractionMarker)
    /\ ~StartsWith(line, TotalMarker)

\* line.split(". ", 1)
SplitNumbering(line) ==
    LET n == Find(line, NumberingSep)
    IN  IF n = 0 THEN <<line>>
        ELSE <<SubSeq(line, 1, n - 1), SubSeq(line, n + Len(NumberingSep), Len(line))>>

\* "Remove numbering if present"
Unnumbered(line) ==
    IF Find(line, NumberingSep) > 0 /\ IsDigit(Strip(SplitNumbering(line)[1]))
    THEN SplitNumbering(line)[2]
    ELSE line

RECURSIVE ContentLines(_)
ContentLines(lines) ==
    IF lines = <<>> THEN <<>>
    ELSE LET line == Strip(Head(lines))
         IN  (IF IsContent(line) THEN <<Unnumbered(line)>> ELSE <<>>)
             \o ContentLines(Tail(lines))

\* _load_extracted_content: [] when the file does not exist or reading it raises
LoadExtractedContent(file, readable) ==
    IF ~file.present THEN <<>>
    ELSE IF ~readable THEN <<>>
    ELSE ContentLines(ReadLines(file.text))

-----------------------------------------------------------------------------
(* The document and the gatherers                                          *)
(*                                                                         *)
(* A JSON object is a record [keys, ...]: keys holds the names present,    *)
(* the fields of absent names are not read.  doc.kind tells what the file  *)
(* is: "absent", "unparsable" (json.load raises), "array" (a JSON value    *)
(* that is no object, with `items` elements) or "object".                  *)

\* dict.get(key, default)
Get(d, key, default) == IF key \in d.keys THEN d[key] ELSE default

EmptySymbolic == [keys |-> {}, symbols |-> <<>>, aesthetic_techniques |-> <<>>]

EmptyNarrative == [keys |-> {}, mantras |-> <<>>, archetype |-> <<>>, techniques |-> <<>>]

\* load_json_data: None when the file is missing or json.load raises,
\* and otherwise whatever value the file holds
LoadJsonData(d) ==
    IF d.kind \in {"absent", "unparsable"} THEN [none |-> TRUE, data |-> d]
    ELSE [none |-> FALSE, data |-> d]

\* bool(data) of a loaded value
Truthy(data) == IF data.kind = "object" THEN data.keys # {} ELSE data.items > 0

\* "Remove duplicates while preserving order"
RECURSIVE UniqueLoop(_, _, _)
UniqueLoop(all_symbols, unique_symbols, seen) ==
    IF all_symbols = <<>> THEN unique_symbols
    ELSE IF Head(all_symbols) \notin seen
         THEN UniqueLoop(Tail(all_symbols), Append(unique_symbols, Head(all_symbols)),
                         seen \cup {Head(all_symbols)})
         ELSE UniqueLoop(Tail(all_symbols), unique_symbols, seen)

\* the gatherer without its duplicate filter
GatherAllSymbols_NoDedup(data) ==
    LET symbolic_analysis == Get(data, "symbolic_analysis", EmptySymbolic)
    IN  Get(symbolic_analysis, "symbols", <<>>)
        \o Get(symbolic_analysis, "aesthetic_techniques", <<>>)

GatherAllSymbols(data) ==
    LET symbolic_analysis == Get(data, "symbolic_analysis", EmptySymbolic)
        symbols == Get(symbolic_analysis, "symbols", <<>>)
        aesthetic_techniques == Get(symbolic_analysis, "aesthetic_techniques", <<>>)
        all_symbols == symbols \o aesthetic_techniques
    IN  UniqueLoop(all_symbols, <<>>, {})

\* the gatherer without its test of the archetype
GatherAllMantras_AlwaysArchetype(data) ==
    LET narrative == Get(data, "narrative_structures", EmptyNarrative)
        techniques == Get(narrative, "techniques", <<>>)
    IN  Get(narrative, "mantras", <<>>)
        \o <<ArchetypeTag \o Get(narrative, "archetype", <<>>)>>
        \o [i \in 1..Len(techniques) |-> TechniqueTag \o techniques[i]]

GatherAllMantras(data) ==
    LET narrative == Get(data, "narrative_structures", EmptyNarrative)
        mantras == Get(narrative, "mantras", <<>>)
        archetype == Get(narrative, "archetype", <<>>)
        techniques == Get(narrative, "techniques", <<>>)
    IN  mantras
        \o (IF archetype # <<>> THEN <<ArchetypeTag \o archetype>> ELSE <<>>)
        \o [i \in 1..Len(techniques) |-> TechniqueTag \o techniques[i]]

-----------------------------------------------------------------------------
(* The glitch fusion                                                       *)

Count(s, e) == Cardinality({i \in 1..Len(s) : s[i] = e})

\* t holds the entries of s, each as often as s does
IsPermutationOf(t, s) ==
    /\ Len(t) = Len(s)
    /\ \A e \in Range(s) \cup Range(t) : Count(t, e) = Count(s, e)

\* random.shuffle: every reordering of the list is a possible outcome
Shuffles(content) ==
    {t \in [1..Len(content) -> Range(content)] : IsPermutationOf(t, content)}

\* self.glitch_symbols[k % len(self.glitch_symbols)], k possibly negative
Glyph(k) == glitch_symbols[(k % Len(glitch_symbols)) + 1]

\* "".join(self.glitch_symbols[j % 8] for j in range(n))
GlyphCluster(n) == [j \in 1..n |-> Glyph(j - 1)]

\* list.insert(mid, x)
Insert(words, mid, x) ==
    SubSeq(words, 1, mid) \o <<x>> \o SubSeq(words, mid + 1, Len(words))

\* the loop body with the trailing glyph counted forward
GlitchLine_ForwardTrailing(i, line) ==
    IF i % 4 = 0 THEN
        <<Glyph(i), " ">> \o line \o <<" ", Glyph(i)>>
    ELSE IF i % 4 = 1 THEN
        GlyphCluster((i % 3) + 1) \o <<" ">> \o line
    ELSE IF i % 4 = 2 THEN
        line \o <<" ", Glyph(i)>>
    ELSE
        LET words == SplitWords(line)
        IN  IF Len(words) > 2
            THEN JoinSpace(Insert(words, Len(words) \div 2, <<Glyph(i)>>))
            ELSE line

\* the body of the loop over enumerate(glitch_content)
GlitchLine(i, line) ==
    IF i % 4 = 0 THEN
        <<Glyph(i), " ">> \o line \o <<" ", Glyph(i)>>
    ELSE IF i % 4 = 1 THEN
        GlyphCluster((i % 3) + 1) \o <<" ">> \o line
    ELSE IF i % 4 = 2 THEN
        line \o <<" ", Glyph(0 - i)>>
    ELSE
        LET words == SplitWords(line)
        IN  IF Len(words) > 2
            THEN JoinSpace(Insert(words, Len(words) \div 2, <<Glyph(i)>>))
            ELSE line

\* the decoration of the shuffled list, in its order
Decorate(shuffled) == [k \in 1..Len(shuffled) |-> GlitchLine(k - 1, shuffled[k])]

\* the fusion decorating the list it was given instead of the shuffled copy
CreateGlitchedFusion_OriginalOrder(content, shuffled) ==
    IF content = <<>> THEN <<>>
    ELSE [k \in 1..Len(content) |-> GlitchLine(k - 1, content[k])]

\* _create_glitched_fusion, the outcome of shuffle() given
CreateGlitchedFusion(content, shuffled) ==
    IF content = <<>> THEN <<>> ELSE Decorate(shuffled)

-----------------------------------------------------------------------------
(* The three stages.  Each operator is the set of outcomes the stage can   *)
(* have on document d and files fs, one per behaviour of the filesystem    *)
(* and of shuffle(): result is "True" or "False" (the value returned) or   *)
(* "raise" (an exception leaves the stage), files the files afterwards.    *)

SymbolsFile == "symboles_extraits.txt"

MantrasFile == "mantras_extraits.txt"

ChantFile == "chant_glitch_fusion.txt"

\* One call of a stage: what it returned, the files before and after it, what
\* its write did ("no" write, "open_failed", "write_failed", "ok"), and for the
\* chant what the two reads returned, whether each report could be read, and
\* the order shuffle() left the lines in.
Outcome(stage, result, before, after, wrote, sc, mc, rd, sh) ==
    [stage |-> stage, result |-> result, before |-> before, files |-> after,
     wrote |-> wrote, symbols_content |-> sc, mantras_content |-> mc,
     readable |-> rd, shuffled |-> sh]

\* a stage that returned or raised before any read or write
Early(stage, result, fs) ==
    Outcome(stage, result, fs, fs, "no", <<>>, <<>>, <<TRUE, TRUE>>, <<>>)

\* the value a stage returns after its write
Returned(w) == IF w.ok THEN "True" ELSE "False"

ExtractSymbols(d, fs) ==
    IF LoadJsonData(d).none \/ ~Truthy(d) THEN
        {Early("extract_symbols", "False", fs)}
    ELSE IF d.kind # "object" THEN
        \* data.get: AttributeError, which nothing catches
        {Early("extract_symbols", "raise", fs)}
    ELSE IF GatherAllSymbols(d) = <<>> THEN
        {Early("extract_symbols", "False", fs)}
    ELSE
        {LET w == WriteSymbolsFile(GatherAllSymbols(d), fs[SymbolsFile], Now, fault)
         IN  Outcome("extract_symbols", Returned(w), fs,
                     [fs EXCEPT ![SymbolsFile] = w.file], w.wrote, <<>>, <<>>,
                     <<TRUE, TRUE>>, <<>>)
         : fault \in Faults(SymbolsChunks(GatherAllSymbols(d), Now))}

ExtractMantras(d, fs) ==
    IF LoadJsonData(d).none \/ ~Truthy(d) THEN
        {Early("extract_mantras", "False", fs)}
    ELSE IF d.kind # "object" THEN
        {Early("extract_mantras", "raise", fs)}
    ELSE IF GatherAllMantras(d) = <<>> THEN
        {Early("extract_mantras", "False", fs)}
    ELSE
        {LET w == WriteMantrasFile(GatherAllMantras(d), fs[MantrasFile], Now, fault)
         IN  Outcome("extract_mantras", Returned(w), fs,
                     [fs EXCEPT ![MantrasFile] = w.file], w.wrote, <<>>, <<>>,
                     <<TRUE, TRUE>>, <<>>)
         : fault \in Faults(MantrasChunks(GatherAllMantras(d), Now))}

\* generate_chant fusing the symbols alone
FuseAndWrite_SymbolsOnly(fs, symbols_content, mantras_content, rd) ==
    IF symbols_content = <<>> /\ mantras_content = <<>> THEN
        {Outcome("generate_chant", "False", fs, fs, "no", symbols_content,
                 mantras_content, rd, <<>>)}
    ELSE
        UNION {
          {LET w == WriteChantFile(CreateGlitchedFusion(symbols_content, sh),
                                   fs[ChantFile], Now, fault)
           IN  Outcome("generate_chant", Returned(w), fs,
                       [fs EXCEPT ![ChantFile] = w.file], w.wrote, symbols_content,
                       mantras_content, rd, sh)
           : fault \in Faults(ChantChunks(CreateGlitchedFusion(symbols_content, sh), Now))}
          : sh \in Shuffles(symbols_content)}

\* generate_chant giving up as soon as one report is empty
FuseAndWrite_RequiresBoth(fs, symbols_content, mantras_content, rd) ==
    IF symbols_content = <<>> \/ mantras_content = <<>> THEN
        {Outcome("generate_chant", "False", fs, fs, "no", symbols_content,
                 mantras_content, rd, <<>>)}
    ELSE
        UNION {
          {LET glitched == CreateGlitchedFusion(symbols_content \o mantras_content, sh)
               w == WriteChantFile(glitched, fs[ChantFile], Now, fault)
           IN  Outcome("generate_chant", Returned(w), fs,
                       [fs EXCEPT ![ChantFile] = w.file], w.wrote, symbols_content,
                       mantras_content, rd, sh)
           : fault \in Faults(ChantChunks(
                 CreateGlitchedFusion(symbols_content \o mantras_content, sh), Now))}
          : sh \in Shuffles(symbols_content \o mantras_content)}

\* generate_chant once both reports are read
FuseAndWrite(fs, symbols_content, mantras_content, rd) ==
    IF symbols_content = <<>> /\ mantras_content = <<>> THEN
        {Outcome("generate_chant", "False", fs, fs, "no", symbols_content,
                 mantras_content, rd, <<>>)}
    ELSE
        UNION {
          {LET glitched == CreateGlitchedFusion(symbols_content \o mantras_content, sh)
               w == WriteChantFile(glitched, fs[ChantFile], Now, fault)
           IN  Outcome("generate_chant", Returned(w), fs,
                       [fs EXCEPT ![ChantFile] = w.file], w.wrote, symbols_content,
                       mantras_content, rd, sh)
           : fault \in Faults(ChantChunks(
                 CreateGlitchedFusion(symbols_content \o mantras_content, sh), Now))}
          : sh \in Shuffles(symbols_content \o mantras_content)}

\* whether open(file_path, 'r') and readlines() go through, for a file that exists
Readable(file) == IF file.present THEN BOOLEAN ELSE {TRUE}

\* generate_chant: each report that exists may be readable or not
GenerateChant(fs) ==
    UNION {FuseAndWrite(fs, LoadExtractedContent(fs[SymbolsFile], rs),
                            LoadExtractedContent(fs[MantrasFile], rm), <<rs, rm>>)
           : rs \in Readable(fs[SymbolsFile]), rm \in Readable(fs[MantrasFile])}

-----------------------------------------------------------------------------
(* The states the process can start in: a document, and report files left  *)
(* by an earlier run or none.                                              *)

Phi == <<"U+03A6">>

Psi == <<"U+03A8">>

Om == <<"o", "m">>

ThreeWords == <<"x", " ", "y", " ", "z">>

TwoLines == <<"a", "\n", "b">>

Hero == <<"h", "e", "r", "o">>

Loop == <<"l", "o", "o", "p">>

SymbolicChoices ==
    { [present |-> FALSE, section |-> EmptySymbolic],
      [present |-> TRUE, section |-> EmptySymbolic],
      [present |-> TRUE, section |->
          [keys |-> {"symbols"}, symbols |-> <<Phi, Psi>>, aesthetic_techniques |-> <<>>]],
      [present |-> TRUE, section |->
          [keys |-> {"symbols", "aesthetic_techniques"}, symbols |-> <<Phi>>,
           aesthetic_techniques |-> <<Phi>>]],
      [present |-> TRUE, section |->
          [keys |-> {"symbols"}, symbols |-> <<TwoLines>>, aesthetic_techniques |-> <<>>]] }

NarrativeChoices ==
    { [present |-> FALSE, section |-> EmptyNarrative],
      [present |-> TRUE, section |->
          [keys |-> {"mantras"}, mantras |-> <<Om>>, archetype |-> <<>>,
           techniques |-> <<>>]],
      [present |-> TRUE, section |->
          [keys |-> {"mantras", "archetype", "techniques"}, mantras |-> <<ThreeWords>>,
           archetype |-> <<>>, techniques |-> <<>>]],
      [present |-> TRUE, section |->
          [keys |-> {"archetype", "techniques"}, mantras |-> <<>>, archetype |-> Hero,
           techniques |-> <<Loop>>]] }

ObjectDoc(sc, nc) ==
    [kind |-> "object", items |-> 0,
     keys |-> (IF sc.present THEN {"symbolic_analysis"} ELSE {})
              \cup (IF nc.present THEN {"narrative_structures"} ELSE {}),
     symbolic_analysis |-> sc.section, narrative_structures |-> nc.section]

OtherDoc(kind, items) ==
    [kind |-> kind, items |-> items, keys |-> {},
     symbolic_analysis |-> EmptySymbolic, narrative_structures |-> EmptyNarrative]

Documents ==
    {OtherDoc("absent", 0), OtherDoc("unparsable", 0), OtherDoc("array", 0),
     OtherDoc("array", 1)}
    \cup {ObjectDoc(sc, nc) : sc \in SymbolicChoices, nc \in NarrativeChoices}

\* reports an earlier run left behind
StaleFile(name) ==
    CASE name = SymbolsFile ->
            WriteSymbolsFile(<<Psi>>, NoFile, Earlier, [kind |-> "ok", at |-> 0]).file
      [] name = MantrasFile ->
            WriteMantrasFile(<<Om, Om>>, NoFile, Earlier, [kind |-> "ok", at |-> 0]).file
      [] OTHER ->
            WriteChantFile(Decorate(<<Om, Psi, Om>>), NoFile, Earlier,
                           [kind |-> "ok", at |-> 0]).file

NoCall == Early("none", "none", [n \in FileNames |-> NoFile])

\* the variables of the pure-function harnesses, unused by the process
HarnessIdle ==
    /\ L = <<>> /\ loaded = <<>> /\ phase = "off" /\ gathered = <<>>
    /\ S = <<>> /\ M = <<>> /\ glitch_content = <<>> /\ processed_content = <<>>

\* the variables of the process, unused by the pure-function harnesses
ProcessIdle ==
    /\ doc = OtherDoc("absent", 0) /\ pc = "off" /\ command = ""
    /\ success_count = 0 /\ ret = "none" /\ attempts = <<>> /\ last = NoCall

Init ==
    /\ doc \in Documents
    /\ files \in [FileNames -> {NoFile} \cup {StaleFile(n) : n \in FileNames}]
    /\ \A n \in FileNames : files[n] \in {NoFile, StaleFile(n)}
    /\ pc = "main"
    /\ command = ""
    /\ success_count = 0
    /\ ret = "none"
    /\ attempts = <<>>
    /\ last = NoCall
    /\ HarnessIdle

-----------------------------------------------------------------------------
(* main and run_complete_ritual                                            *)

total_steps == 3

harness == <<L, loaded, phase, gathered, S, M, glitch_content, processed_content>>

\* one stage call made by main itself: the process ends, or dies of the exception
Call(o, arg) ==
    /\ command' = arg
    /\ files' = o.files
    /\ last' = o
    /\ attempts' = Append(attempts, [stage |-> o.stage, result |-> o.result])
    /\ pc' = IF o.result = "raise" THEN "crashed" ELSE "exit"
    /\ UNCHANGED <<doc, success_count, ret, harness>>

MainSymbols == pc = "main" /\ \E o \in ExtractSymbols(doc, files) : Call(o, "symbols")

MainMantras == pc = "main" /\ \E o \in ExtractMantras(doc, files) : Call(o, "mantras")

MainChant == pc = "main" /\ \E o \in GenerateChant(files) : Call(o, "chant")

\* "ritual", "all" or no argument (all three recorded as "ritual"): the
\* orchestrator is built and its run begins
MainRitual ==
    /\ pc = "main"
    /\ command' = "ritual"
    /\ success_count' = 0
    /\ pc' = "ExtractingSymbols"
    /\ UNCHANGED <<doc, files, ret, attempts, last, harness>>

\* any other argument: the usage line
MainUsage ==
    /\ pc = "main"
    /\ command' = "other"
    /\ pc' = "exit"
    /\ UNCHANGED <<doc, files, success_count, ret, attempts, last, harness>>

\* one step of run_complete_ritual: the stage is called and tallied
Step(o, next) ==
    /\ files' = o.files
    /\ last' = o
    /\ attempts' = Append(attempts, [stage |-> o.stage, result |-> o.result])
    /\ success_count' = IF o.result = "True" THEN success_count + 1 ELSE success_count
    /\ pc' = IF o.result = "raise" THEN "crashed" ELSE next
    /\ UNCHANGED <<doc, command, ret, harness>>

StepExtractSymbols ==
    /\ pc = "ExtractingSymbols"
    /\ \E o \in ExtractSymbols(doc, files) : Step(o, "ExtractingMantras")

StepExtractMantras ==
    /\ pc = "ExtractingMantras"
    /\ \E o \in ExtractMantras(doc, files) : Step(o, "GeneratingChant")

StepGenerateChant ==
    /\ pc = "GeneratingChant"
    /\ \E o \in GenerateChant(files) : Step(o, "FinalReport")

FinalReport ==
    /\ pc = "FinalReport"
    /\ ret' = IF success_count = total_steps THEN "True" ELSE "False"
    /\ pc' = "Done"
    /\ UNCHANGED <<doc, files, command, success_count, attempts, last, harness>>

Next ==
    \/ MainSymbols
    \/ MainMantras
    \/ MainChant
    \/ MainRitual
    \/ MainUsage
    \/ StepExtractSymbols
    \/ StepExtractMantras
    \/ StepGenerateChant
    \/ FinalReport

Spec == Init /\ [][Next]_vars

-----------------------------------------------------------------------------
(* Bounded input domains of the pure-function specifications              *)

\* all sequences over E of length at most n
RECURSIVE SeqsUpTo(_, _)
SeqsUpTo(E, n) ==
    IF n = 0 THEN {<<>>}
    ELSE SeqsUpTo(E, n - 1) \cup {Append(s, e) : s \in SeqsUpTo(E, n - 1), e \in E}

Trailing == <<"a", " ">>

Leading == <<" ", "a">>

Numbered == <<"1", ".", " ", "a">>

Dashes == <<"-", "-", "-", " ", "a">>

TwoWords == <<"p", " ", "q">>

FiveWords == <<"u", " ", "v", " ", " ", "w", " ", "x", " ", "y">>

-----------------------------------------------------------------------------
(* Round trip: a list is written by a report writer and read back          *)

\* every list of at most MaxShortLen entries is tried
MaxShortLen == 2

\* lists of one repeated entry are tried up to this length (two-digit numbering)
MaxLongLen == 12

RoundTripEntries == {<<>>, <<"a">>, Trailing, Leading, Numbered, Dashes, ThreeWords}

RoundTripLists ==
    SeqsUpTo(RoundTripEntries, MaxShortLen)
    \cup {Repeat(e, n) : e \in RoundTripEntries, n \in 1..MaxLongLen}

InitRoundTrip ==
    /\ L \in RoundTripLists
    /\ files = [n \in FileNames |-> NoFile]
    /\ phase = "list"
    /\ loaded = <<>>
    /\ gathered = <<>> /\ S = <<>> /\ M = <<>>
    /\ glitch_content = <<>> /\ processed_content = <<>>
    /\ ProcessIdle

process == <<doc, pc, command, success_count, ret, attempts, last>>

WriteSymbolsReport ==
    /\ phase = "list"
    /\ \E fault \in Faults(SymbolsChunks(L, Now)) :
          LET w == WriteSymbolsFile(L, files[SymbolsFile], Now, fault)
          IN  /\ files' = [files EXCEPT ![SymbolsFile] = w.file]
              /\ phase' = IF w.ok THEN "symbols_written" ELSE "write_failed"
    /\ UNCHANGED <<L, loaded, gathered, S, M, glitch_content, processed_content, process>>

WriteMantrasReport ==
    /\ phase = "list"
    /\ \E fault \in Faults(MantrasChunks(L, Now)) :
          LET w == WriteMantrasFile(L, files[MantrasFile], Now, fault)
          IN  /\ files' = [files EXCEPT ![MantrasFile] = w.file]
              /\ phase' = IF w.ok THEN "mantras_written" ELSE "write_failed"
    /\ UNCHANGED <<L, loaded, gathered, S, M, glitch_content, processed_content, process>>

ReadReport ==
    /\ phase \in {"symbols_written", "mantras_written"}
    /\ LET name == IF phase = "symbols_written" THEN SymbolsFile ELSE MantrasFile
       IN  \E readable \in Readable(files[name]) :
              /\ loaded' = LoadExtractedContent(files[name], readable)
              /\ phase' = IF readable THEN "read" ELSE "unreadable"
    /\ UNCHANGED <<L, files, gathered, S, M, glitch_content, processed_content, process>>

NextRoundTrip == WriteSymbolsReport \/ WriteMantrasReport \/ ReadReport

SpecRoundTrip == InitRoundTrip /\ [][NextRoundTrip]_vars

-----------------------------------------------------------------------------
(* Gathering: the gatherers applied to a parsed document                   *)

MaxSymbolsLen == 4

MaxNarrativeLen == 2

GatherEntries == {<<"a">>, <<"b">>, <<"c">>}

NarrativeEntries == {<<"x">>, <<"y">>}

\* a JSON object holding the fields of `present` among `names`
Section(names, present, value) ==
    [n \in names \cup {"keys"} |->
        IF n = "keys" THEN present ELSE IF n \in present THEN value[n] ELSE <<>>]

SymbolicSections ==
    {Section({"symbols", "aesthetic_techniques"}, present,
             [symbols |-> s, aesthetic_techniques |-> a])
     : present \in SUBSET {"symbols", "aesthetic_techniques"},
       s \in SeqsUpTo(GatherEntries, MaxSymbolsLen),
       a \in SeqsUpTo(GatherEntries, MaxNarrativeLen)}

NarrativeSections ==
    {Section({"mantras", "archetype", "techniques"}, present,
             [mantras |-> m, archetype |-> a, techniques |-> t])
     : present \in SUBSET {"mantras", "archetype", "techniques"},
       m \in SeqsUpTo(NarrativeEntries, MaxNarrativeLen),
       a \in {<<>>, Hero},
       t \in SeqsUpTo(NarrativeEntries, MaxNarrativeLen)}

GatherDocuments ==
    {ObjectDoc([present |-> FALSE, section |-> EmptySymbolic],
               [present |-> FALSE, section |-> EmptyNarrative])}
    \cup {ObjectDoc([present |-> TRUE, section |-> sa],
                    [present |-> FALSE, section |-> EmptyNarrative])
          : sa \in SymbolicSections}
    \cup {ObjectDoc([present |-> FALSE, section |-> EmptySymbolic],
                    [present |-> TRUE, section |-> ns])
          : ns \in NarrativeSections}

InitGather ==
    /\ doc \in GatherDocuments
    /\ phase = "document"
    /\ gathered = <<>>
    /\ files = [n \in FileNames |-> NoFile]
    /\ pc = "off" /\ command = "" /\ success_count = 0 /\ ret = "none"
    /\ attempts = <<>> /\ last = NoCall
    /\ L = <<>> /\ loaded = <<>> /\ S = <<>> /\ M = <<>>
    /\ glitch_content = <<>> /\ processed_content = <<>>

GatherSymbols ==
    /\ phase = "document"
    /\ gathered' = GatherAllSymbols(doc)
    /\ phase' = "symbols"
    /\ UNCHANGED <<doc, files, pc, command, success_count, ret, attempts, last, L,
                   loaded, S, M, glitch_content, processed_content>>

GatherMantras ==
    /\ phase = "document"
    /\ gathered' = GatherAllMantras(doc)
    /\ phase' = "mantras"
    /\ UNCHANGED <<doc, files, pc, command, success_count, ret, attempts, last, L,
                   loaded, S, M, glitch_content, processed_content>>

NextGather == GatherSymbols \/ GatherMantras

SpecGather == InitGather /\ [][NextGather]_vars

-----------------------------------------------------------------------------
(* Fusion: _create_glitched_fusion applied to two lists of content lines   *)

\* every pair of lists of at most MaxFuseLen lines in all is tried
MaxFuseLen == 4

\* lists of one repeated line are tried up to this length in all
MaxDecorLen == 12

FuseEntries == {Om, TwoWords, ThreeWords}

DecorEntries == FuseEntries \cup {FiveWords}

FuseInputs ==
    {<<s, m>> \in SeqsUpTo(FuseEntries, MaxFuseLen) \X SeqsUpTo(FuseEntries, MaxFuseLen)
        : Len(s) + Len(m) <= MaxFuseLen}
    \cup UNION {{<<Repeat(e, k), Repeat(e, n - k)>> : e \in DecorEntries, k \in 0..n}
                 : n \in 1..MaxDecorLen}

InitFuse ==
    /\ \E in \in FuseInputs : S = in[1] /\ M = in[2]
    /\ phase = "lists"
    /\ glitch_content = <<>>
    /\ processed_content = <<>>
    /\ files = [n \in FileNames |-> NoFile]
    /\ L = <<>> /\ loaded = <<>> /\ gathered = <<>>
    /\ ProcessIdle

Fuse ==
    /\ phase = "lists"
    /\ \E sh \in Shuffles(S \o M) :
          /\ glitch_content' = sh
          /\ processed_content' = CreateGlitchedFusion(S \o M, sh)
    /\ phase' = "fused"
    /\ UNCHANGED <<files, L, loaded, gathered, S, M, process>>

NextFuse == Fuse

SpecFuse == InitFuse /\ [][NextFuse]_vars

-----------------------------------------------------------------------------
(* Vocabulary of the properties                                            *)

\* t is s with its positions permuted: each value occurs in t as often as in s
Rearranges(t, s) ==
    /\ Len(t) = Len(s)
    /\ \A i \in 1..Len(s) :
          Cardinality({j \in 1..Len(t) : t[j] = s[i]})
            = Cardinality({j \in 1..Len(s) : s[j] = s[i]})

\* the decoration the rules prescribe for the line at 0-based position i
RuleDecoration(i, line) ==
    LET wrap == glitch_symbols[(i % 8) + 1]
        back == glitch_symbols[((8 - (i % 8)) % 8) + 1]
        words == SplitWords(line)
        half == Len(words) \div 2
    IN  CASE i % 4 = 0 -> <<wrap, " ">> \o line \o <<" ", wrap>>
          [] i % 4 = 1 -> SubSeq(glitch_symbols, 1, (i % 3) + 1) \o <<" ">> \o line
          [] i % 4 = 2 -> line \o <<" ", back>>
          [] OTHER -> IF Len(words) > 2
                      THEN JoinSpace(SubSeq(words, 1, half) \o <<<<wrap>>>>
                                     \o SubSeq(words, half + 1, Len(words)))
                      ELSE line

RuleDecorations(lines) == [k \in 1..Len(lines) |-> RuleDecoration(k - 1, lines[k])]

\* the field of a section of the document, empty when the section or the field is missing
Field(section, name) ==
    IF section \in doc.keys /\ name \in doc[section].keys THEN doc[section][name] ELSE <<>>

\* the position of the first occurrence of e in s
FirstIndex(s, e) == CHOOSE i \in 1..Len(s) : s[i] = e /\ \A j \in 1..(i - 1) : s[j] # e

-----------------------------------------------------------------------------
(* C1  Round trip.  A list of entries without line breaks that a report    *)
(* writer wrote and the reader read back is read back unchanged.           *)
RoundTrip == phase = "read" => loaded = L

-----------------------------------------------------------------------------
(* C4  The gathered symbols are the distinct values of symbols followed by *)
(* aesthetic_techniques (a missing section or list being empty), without   *)
(* duplicates, in the order of their first occurrence.                     *)
GatherSymbolsDeduplicates ==
    phase = "symbols" =>
        LET all == Field("symbolic_analysis", "symbols")
                   \o Field("symbolic_analysis", "aesthetic_techniques")
        IN  /\ \A i, j \in 1..Len(gathered) : gathered[i] = gathered[j] => i = j
            /\ Range(gathered) = Range(all)
            /\ \A i, j \in 1..Len(gathered) :
                  i < j => FirstIndex(all, gathered[i]) < FirstIndex(all, gathered[j])

\* symbols [a, b, a, c] with further techniques were gathered into [a, b, c]
GatherSymbolsWitness ==
    /\ phase = "symbols"
    /\ Field("symbolic_analysis", "symbols") = << <<"a">>, <<"b">>, <<"a">>, <<"c">> >>
    /\ Field("symbolic_analysis", "aesthetic_techniques") = << <<"c">>, <<"b">> >>
    /\ gathered = << <<"a">>, <<"b">>, <<"c">> >>

-----------------------------------------------------------------------------
(* C5  The gathered mantras are the mantras list as it is, then the line   *)
(* "[ARCHETYPE] <archetype>" exactly when the archetype is present and not *)
(* empty, then "[TECHNIQUE] <t>" for each technique in order.              *)
GatherMantrasLayout ==
    phase = "mantras" =>
        LET mantras == Field("narrative_structures", "mantras")
            archetype == Field("narrative_structures", "archetype")
            techniques == Field("narrative_structures", "techniques")
            a == IF archetype # <<>> THEN 1 ELSE 0
        IN  /\ Len(gathered) = Len(mantras) + a + Len(techniques)
            /\ \A i \in 1..Len(mantras) : gathered[i] = mantras[i]
            /\ a = 1 => gathered[Len(mantras) + 1] = ArchetypeTag \o archetype
            /\ \A i \in 1..Len(techniques) :
                  gathered[Len(mantras) + a + i] = TechniqueTag \o techniques[i]

\* a repeated mantra, an archetype and two techniques were gathered into five lines
GatherMantrasWitness ==
    /\ phase = "mantras"
    /\ Field("narrative_structures", "mantras") = << <<"x">>, <<"x">> >>
    /\ Field("narrative_structures", "archetype") = Hero
    /\ Len(Field("narrative_structures", "techniques")) = 2
    /\ Len(gathered) = 5
    /\ gathered[2] = <<"x">>

-----------------------------------------------------------------------------
(* C6  Fusing two empty lists gives nothing; otherwise the fusion has      *)
(* |S|+|M| lines, line i being the decoration for position i of entry p(i) *)
(* of S followed by M, p a permutation: nothing dropped, nothing doubled,  *)
(* the shuffled order kept.                                                *)
FusionIsDecoratedPermutation ==
    phase = "fused" =>
        /\ (S = <<>> /\ M = <<>>) => processed_content = <<>>
        /\ Len(processed_content) = Len(S) + Len(M)
        /\ Rearranges(glitch_content, S \o M)
        /\ \A k \in 1..Len(processed_content) :
              processed_content[k] = RuleDecoration(k - 1, glitch_content[k])

\* three different lines were fused in an order that is not the original one
FusionWitness ==
    /\ phase = "fused"
    /\ S = <<Om>>
    /\ M = <<TwoWords, ThreeWords>>
    /\ glitch_content = <<ThreeWords, Om, TwoWords>>
    /\ Len(processed_content) = 3

-----------------------------------------------------------------------------
(* C7  The decoration of the line at 0-based position i depends on i and   *)
(* the line alone: i mod 4 = 0 wraps it in glyph[i mod 8]; 1 prepends the  *)
(* first (i mod 3)+1 glyphs and a space; 2 appends a space and             *)
(* glyph[(-i) mod 8]; 3 inserts glyph[i mod 8] at word floor(words/2) of a *)
(* line of more than 2 words and leaves any other line as it is.           *)
DecorationRules ==
    phase = "fused" =>
        /\ processed_content = RuleDecorations(glitch_content)
        /\ Len(glitch_content) > 1 =>
              SubSeq(processed_content[2], 1, 3) = <<"U+263F", "U+2604", " ">>
        /\ Len(glitch_content) > 2 =>
              processed_content[3] = glitch_content[3] \o <<" ", "U+2606">>

\* twelve lines of five words were decorated: every rule, at three positions each
DecorationWitness ==
    /\ phase = "fused"
    /\ Len(glitch_content) = 12
    /\ glitch_content[12] = FiveWords
    /\ processed_content[12] =
          <<"u", " ", "v", " ", "U+25CA", " ", "w", " ", "x", " ", "y">>
    /\ processed_content[10] = <<"U+263F", " ">> \o FiveWords

-----------------------------------------------------------------------------
(* Vocabulary of the properties of the process                             *)

Stages == {"extract_symbols", "extract_mantras", "generate_chant"}

RitualOrder == <<"extract_symbols", "extract_mantras", "generate_chant">>

\* the report a stage writes
OutputOf(stage) ==
    CASE stage = "extract_symbols" -> SymbolsFile
      [] stage = "extract_mantras" -> MantrasFile
      [] OTHER -> ChantFile

IsPrefix(p, s) == Len(p) <= Len(s) /\ SubSeq(s, 1, Len(p)) = p

\* the non-empty lines of a chant between its two invocation marks
InvocationLines(text) ==
    LET lines == [k \in 1..Len(ReadLines(text)) |-> RStrip(ReadLines(text)[k])]
        opens == {k \in 1..Len(lines) : lines[k] = Strip(ChantInvocation)}
        closes == {k \in 1..Len(lines) : lines[k] = Strip(ChantEnd)}
        first == CHOOSE k \in opens : \A j \in opens : k <= j
        final == CHOOSE k \in closes : \A j \in closes : j <= k
        NotEmpty(line) == line # <<>>
    IN  IF opens = {} \/ closes = {} THEN <<>>
        ELSE SelectSeq(SubSeq(lines, first + 1, final - 1), NotEmpty)

\* the ritual ran to its end on a document from which symbols and mantras were gathered
RitualDoneOnFullDocument ==
    /\ command = "ritual" /\ pc = "Done"
    /\ doc.kind = "object"
    /\ GatherAllSymbols(doc) # <<>> /\ GatherAllMantras(doc) # <<>>

\* the three reports exist and are not empty, the two extraction reports are those of
\* this run, and the chant invokes one decorated line per gathered entry, all of them
\* lines of those two reports
HandOff ==
    /\ \A n \in FileNames : files[n].present /\ files[n].text # <<>>
    /\ files[SymbolsFile].text = Concat(SymbolsChunks(GatherAllSymbols(doc), Now))
    /\ files[MantrasFile].text = Concat(MantrasChunks(GatherAllMantras(doc), Now))
    /\ Len(InvocationLines(files[ChantFile].text))
          = Len(GatherAllSymbols(doc)) + Len(GatherAllMantras(doc))
    /\ \E t \in Shuffles(LoadExtractedContent(files[SymbolsFile], TRUE)
                          \o LoadExtractedContent(files[MantrasFile], TRUE)) :
          InvocationLines(files[ChantFile].text) = RuleDecorations(t)

HasLineBreak(entries) == \E i \in 1..Len(entries) : "\n" \in Range(entries[i])

\* the complete report the last stage call was writing
ReportOf(call) ==
    CASE call.stage = "extract_symbols" -> Concat(SymbolsChunks(GatherAllSymbols(doc), Now))
      [] call.stage = "extract_mantras" -> Concat(MantrasChunks(GatherAllMantras(doc), Now))
      [] OTHER -> Concat(ChantChunks(RuleDecorations(call.shuffled), Now))

-----------------------------------------------------------------------------
(* C2  In every run of the ritual the three stages are attempted once each *)
(* in the order symbols, mantras, chant whatever they return, the run      *)
(* reaches its end, and it returns success exactly when all three did.     *)
RitualSequencing ==
    command = "ritual" =>
        /\ pc # "crashed"
        /\ [k \in 1..Len(attempts) |-> attempts[k].stage]
              = SubSeq(RitualOrder, 1, Len(attempts))
        /\ pc \in {"FinalReport", "Done"} => Len(attempts) = total_steps
        /\ pc = "Done" =>
              (ret = "True" <=> \A k \in 1..Len(attempts) : attempts[k].result = "True")

-----------------------------------------------------------------------------
(* C3  Whatever the document and the files, a stage returns True or False  *)
(* and lets no exception through to the orchestrator or to main.           *)
StagesContainErrors ==
    /\ pc # "crashed"
    /\ \A k \in 1..Len(attempts) : attempts[k].result \in {"True", "False"}

-----------------------------------------------------------------------------
(* C8  As claimed: whenever the ritual has run on a document with symbols  *)
(* and mantras to gather, the three reports exist, are not empty, and the  *)
(* chant invokes exactly |gatherSymbols| + |gatherMantras| lines taken     *)
(* from the two reports of this run.                                       *)
EndToEndHandOff == RitualDoneOnFullDocument => HandOff

(* C8  As amended: the same, provided none of the three writes failed,     *)
(* both reports could be read back and no gathered entry holds a line      *)
(* break.                                                                  *)
EndToEndHandOffOfCleanRun ==
    ( /\ RitualDoneOnFullDocument
      /\ \A k \in 1..Len(attempts) : attempts[k].result = "True"
      /\ last.readable = <<TRUE, TRUE>>
      /\ ~HasLineBreak(GatherAllSymbols(doc) \o GatherAllMantras(doc)) )
    => HandOff

\* the run on symbols [Phi, Psi] and mantras [om] ended with three invoked lines
EndToEndWitness ==
    /\ RitualDoneOnFullDocument
    /\ ret = "True"
    /\ last.readable = <<TRUE, TRUE>>
    /\ Field("symbolic_analysis", "symbols") = <<Phi, Psi>>
    /\ Field("narrative_structures", "mantras") = <<Om>>
    /\ Len(InvocationLines(files[ChantFile].text)) = 3

-----------------------------------------------------------------------------
(* C9  As claimed: a stage that returned failure left its report absent or *)
(* as it was before the call, and did not touch the other reports.         *)
FailedStageLeavesReportUntouched ==
    (last.stage \in Stages /\ last.result = "False") =>
        \A n \in FileNames :
            \/ last.files[n] = last.before[n]
            \/ n = OutputOf(last.stage) /\ ~last.files[n].present

(* C9  As amended: a stage that returned failure did not touch the other   *)
(* reports; it left its own report as it was before the call unless a      *)
(* write raised after the file was opened, and then the file holds a       *)
(* prefix of the new report in place of what it held.                      *)
FailedStageEffect ==
    (last.stage \in Stages /\ last.result = "False") =>
        LET out == OutputOf(last.stage)
        IN  /\ \A n \in FileNames \ {out} : last.files[n] = last.before[n]
            /\ last.wrote # "write_failed" => last.files[out] = last.before[out]
            /\ last.wrote = "write_failed" =>
                  /\ last.files[out].present
                  /\ IsPrefix(last.files[out].text, ReportOf(last))

\* extract_symbols failed in the middle of its write and the earlier report is gone
FailedStageWitness ==
    /\ last.stage = "extract_symbols"
    /\ last.result = "False"
    /\ last.wrote = "write_failed"
    /\ last.before[SymbolsFile] = StaleFile(SymbolsFile)
    /\ last.files[SymbolsFile] # StaleFile(SymbolsFile)
    /\ last.files[MantrasFile] = last.before[MantrasFile]

-----------------------------------------------------------------------------
(* C10  As claimed: a report that is missing or unreadable reads as the    *)
(* empty list; generate_chant returns failure, writing no chant, exactly   *)
(* when both reports yield no line; otherwise it fuses the lines of the    *)
(* symbols report and then of the mantras report, overwrites the chant and *)
(* returns success.                                                        *)
ChantWithMissingInputs ==
    last.stage = "generate_chant" =>
        LET content == last.symbols_content \o last.mantras_content
        IN  /\ last.result # "raise"
            /\ (~last.before[SymbolsFile].present \/ ~last.readable[1])
                  => last.symbols_content = <<>>
            /\ (~last.before[MantrasFile].present \/ ~last.readable[2])
                  => last.mantras_content = <<>>
            /\ last.result = "False" <=> content = <<>>
            /\ content = <<>> => last.files = last.before
            /\ content # <<>> =>
                  /\ Rearranges(last.shuffled, content)
                  /\ last.files[ChantFile] =
                        [present |-> TRUE, text |-> ReportOf(last)]

(* C10  As amended: the same, except that with content to fuse the stage   *)
(* returns success exactly when the write of the chant goes through, the   *)
(* chant then holding the fused lines; it returns failure when both        *)
(* reports yield no line or when that write fails.                         *)
ChantWithMissingInputsOrFailedWrite ==
    last.stage = "generate_chant" =>
        LET content == last.symbols_content \o last.mantras_content
        IN  /\ last.result # "raise"
            /\ (~last.before[SymbolsFile].present \/ ~last.readable[1])
                  => last.symbols_content = <<>>
            /\ (~last.before[MantrasFile].present \/ ~last.readable[2])
                  => last.mantras_content = <<>>
            /\ last.result = "False"
                  <=> (content = <<>> \/ last.wrote \in {"open_failed", "write_failed"})
            /\ content = <<>> => last.files = last.before /\ last.wrote = "no"
            /\ content # <<>> =>
                  /\ Rearranges(last.shuffled, content)
                  /\ last.wrote # "no"
                  /\ last.result = "True" =>
                        last.files[ChantFile] = [present |-> TRUE, text |-> ReportOf(last)]
            /\ \A n \in FileNames \ {ChantFile} : last.files[n] = last.before[n]

\* with no symbols report, the chant was made of the mantras report alone
ChantWitness ==
    /\ last.stage = "generate_chant"
    /\ ~last.before[SymbolsFile].present
    /\ last.mantras_content = <<Om>>
    /\ last.result = "True"
    /\ InvocationLines(files[ChantFile].text) = <<<<"U+263F", " ", "o", "m", " ", "U+263F">>>>

====
